---- MODULE Spec2Model ----
(***************************************************************************)
(* Model of netlify/functions/recipe-api.py: the recipe request handler,  *)
(* the Firestore lookup, the Together AI generation client with its       *)
(* fallback, and the recipe text parser.                                   *)
(*                                                                         *)
(* Strings are sequences of tokens.  A token is one character ("e", " ",  *)
(* "-", "1", ".") or an atomic piece of text that the code only ever      *)
(* tests or removes as a whole ("**Title:**", "**", " - as needed").      *)
(***************************************************************************)
EXTENDS Integers, Sequences, FiniteSets, TLC

VARIABLES
    store,        \* the Firestore collection 'recipes', in stream() order
    req,          \* the request being answered: its body, the environment and the collaborators' outcomes
    resp,         \* the response of handle_recipe_request
    trace,        \* which collaborators the handler invoked, and what they returned
    persisted,    \* ingredient lists whose AI recipe was written back, with the document id
    prior,        \* `persisted` as it was when the current request arrived
    p_text,       \* parser: the lines of recipe_text
    p_orig,       \* parser: original_ingredients
    p_idx,        \* parser: number of lines consumed by the for loop
    p_line,       \* parser: the line consumed by the last iteration
    p_st,         \* parser: title, description, ingredients, instructions, current_section
    p_prev,       \* parser: p_st before the last iteration
    p_pc,         \* parser: "loop" | "done"
    s_in,         \* lookup: query, collection, the record and ingredient added, the query position dropped
    s_out         \* lookup: the ids matched for the three scans

vars == <<store, req, resp, trace, persisted, prior,
          p_text, p_orig, p_idx, p_line, p_st, p_prev, p_pc, s_in, s_out>>

handler_vars == <<store, req, resp, trace, persisted, prior>>
parser_vars  == <<p_text, p_orig, p_idx, p_line, p_st, p_prev, p_pc>>
search_vars  == <<s_in, s_out>>

-----------------------------------------------------------------------------
(* Bounds *)

MaxInitStore == 2    \* documents in the collection when a request arrives
MaxSaves == 1        \* write-backs that succeed in a run of repeated requests
MaxLines == 3        \* lines of an arbitrary recipe text
MaxQuery == 2        \* ingredients of a lookup query

-----------------------------------------------------------------------------
(* str methods *)

Letters == {"e", "g", "f", "l", "o", "u", "r", "m", "i", "k", "t", "s", "y", "c",
            "E", "F", "M", "T", "S", "a", "b"}

LowerOf(c) ==
    CASE c = "E" -> "e" [] c = "F" -> "f" [] c = "M" -> "m" [] c = "T" -> "t"
      [] c = "S" -> "s" [] OTHER -> c

UpperOf(c) ==
    CASE c = "e" -> "E" [] c = "f" -> "F" [] c = "m" -> "M" [] c = "t" -> "T"
      [] c = "g" -> "G" [] c = "s" -> "S" [] c = "a" -> "A" [] c = "b" -> "B"
      [] OTHER -> c

\* str.lower()
Lower(s) == [i \in 1..Len(s) |-> LowerOf(s[i])]

\* str.strip()
Strip(s) ==
    LET keep == {i \in 1..Len(s) : s[i] # " "}
        lo == CHOOSE i \in keep : \A j \in keep : i <= j
        hi == CHOOSE i \in keep : \A j \in keep : j <= i
    IN  IF keep = {} THEN <<>> ELSE SubSeq(s, lo, hi)

\* str.title(): a letter is upper-cased after a non-letter, lower-cased after a letter
TitleCase(s) ==
    [i \in 1..Len(s) |->
        IF i = 1 \/ s[i - 1] \notin Letters THEN UpperOf(s[i]) ELSE LowerOf(s[i])]

RECURSIVE Join(_, _)
\* sep.join(parts)
Join(parts, sep) ==
    IF parts = <<>> THEN <<>>
    ELSE IF Len(parts) = 1 THEN parts[1]
    ELSE parts[1] \o sep \o Join(Tail(parts), sep)

\* a JSON or Firestore value that is not a string: .lower() raises AttributeError
NotAString == <<"#number">>
IsStr(x) == x # NotAString

-----------------------------------------------------------------------------
(* Recipes and responses *)

NoText == <<>>
NoRecipe == [title |-> NoText, description |-> NoText,
             ingredients |-> <<>>, instructions |-> <<>>]

Resp(status, error, source, recipes, recipe) ==
    [status |-> status, error |-> error, source |-> source,
     recipes |-> recipes, recipe |-> recipe]

NoResp == Resp(0, "", "", <<>>, NoRecipe)
RespError(status, msg) == Resp(status, msg, "", <<>>, NoRecipe)
RespDatabase(db_recipes) == Resp(200, "", "database", db_recipes, NoRecipe)
RespAI(ai_recipe) == Resp(200, "", "ai", <<>>, ai_recipe)

AsNeeded(ingredients) ==
    [i \in 1..Len(ingredients) |-> ingredients[i] \o <<" - as needed">>]

create_fallback_recipe(ingredients) ==
    [title |-> <<"Simple ">> \o TitleCase(ingredients[1]) \o <<" Dish">>,
     description |-> <<"A quick and easy recipe using ">> \o Join(ingredients, <<", ">>),
     ingredients |-> AsNeeded(ingredients),
     instructions |-> << <<"Wash and prepare all ingredients">>,
                         <<"Heat oil in a pan over medium heat">>,
                         <<"Add ">> \o ingredients[1] \o <<" to the pan and cook for 3-5 minutes">>,
                         <<"Add remaining ingredients and cook until tender">>,
                         <<"Season with salt and pepper to taste">>,
                         <<"Serve hot and enjoy!">> >>]

-----------------------------------------------------------------------------
(* parse_ai_recipe *)

TITLE_MARK == "**Title:**"
DESC_MARK  == "**Description:**"
ILIST_MARK == "**Ingredients List:**"
INSTR_MARK == "**Instructions:**"
STARS      == "**"
Digits     == {"0", "1", "2", "3", "4", "5", "6", "7", "8", "9"}

\* marker in line
Has(line, tok) == \E i \in 1..Len(line) : line[i] = tok

IsMarkerLine(line) ==
    Has(line, TITLE_MARK) \/ Has(line, DESC_MARK) \/ Has(line, ILIST_MARK) \/ Has(line, INSTR_MARK)

\* line.replace(marker, '')
Remove(line, tok) == SelectSeq(line, LAMBDA c : c # tok)

\* line.replace('**', ''): also takes the asterisks off any marker left in the line
Unstarred(c) ==
    CASE c = TITLE_MARK -> "Title:" [] c = DESC_MARK -> "Description:"
      [] c = ILIST_MARK -> "Ingredients List:" [] c = INSTR_MARK -> "Instructions:"
      [] OTHER -> c

RemoveStars(line) ==
    LET kept == Remove(line, STARS)
    IN  [i \in 1..Len(kept) |-> Unstarred(kept[i])]

\* line.split('.', 1)[1]
AfterFirstDot(line) ==
    LET dot == CHOOSE i \in 1..Len(line) : line[i] = "." /\ \A j \in 1..(i - 1) : line[j] # "."
    IN  SubSeq(line, dot + 1, Len(line))

ParseInit ==
    [title |-> <<"AI-Generated Recipe">>,
     description |-> <<"A delicious recipe created just for you!">>,
     ingredients |-> <<>>,
     instructions |-> <<>>,
     current_section |-> "none"]

\* variant: the ingredient branch without the test of current_section
IngredientBranchAnySection(st, line) == line[1] = "-"

\* the ingredient branch of the loop body

IngredientBranch(st, line) ==
    st.current_section = "ingredients" /\ line[1] = "-"

\* the instruction branch of the loop body
InstructionBranch(st, line) ==
    st.current_section = "instructions" /\ line[1] \in Digits

\* one iteration of `for line in lines`
ParseLine(st, raw) ==
    LET line == Strip(raw)
    IN  IF line = <<>> THEN st
        ELSE IF Has(line, TITLE_MARK)
            THEN [st EXCEPT !.title = Strip(RemoveStars(Remove(line, TITLE_MARK)))]
        ELSE IF Has(line, DESC_MARK)
            THEN [st EXCEPT !.description = Strip(RemoveStars(Remove(line, DESC_MARK)))]
        ELSE IF Has(line, ILIST_MARK)
            THEN [st EXCEPT !.current_section = "ingredients"]
        ELSE IF Has(line, INSTR_MARK)
            THEN [st EXCEPT !.current_section = "instructions"]
        ELSE IF IngredientBranch(st, line)
            THEN [st EXCEPT !.ingredients = Append(@, Strip(Tail(line)))]
        ELSE IF InstructionBranch(st, line)
            THEN [st EXCEPT !.instructions =
                    Append(@, IF Has(line, ".") THEN Strip(AfterFirstDot(line)) ELSE line)]
        ELSE st

DefaultInstructions ==
    << <<"Prepare all ingredients">>, <<"Combine ingredients as appropriate">>,
       <<"Cook until done">>, <<"Season to taste and serve">> >>

\* variant: the defaults without the generic instructions
ParseDefaultsIngredientsOnly(st, original_ingredients) ==
    [st EXCEPT !.ingredients = IF @ = <<>> THEN AsNeeded(original_ingredients) ELSE @]

\* "If parsing failed, ensure we have some content"
ParseDefaults(st, original_ingredients) ==
    [st EXCEPT
        !.ingredients = IF @ = <<>> THEN AsNeeded(original_ingredients) ELSE @,
        !.instructions = IF @ = <<>> THEN DefaultInstructions ELSE @]

\* the dict returned
RecipeOf(st) ==
    [title |-> st.title, description |-> st.description,
     ingredients |-> st.ingredients, instructions |-> st.instructions]

RECURSIVE ParseLoop(_, _)
ParseLoop(st, lines) ==
    IF lines = <<>> THEN st ELSE ParseLoop(ParseLine(st, Head(lines)), Tail(lines))

\* recipe_text is given as recipe_text.split('\n'), which is never empty
parse_ai_recipe(lines, original_ingredients) ==
    RecipeOf(ParseDefaults(ParseLoop(ParseInit, lines), original_ingredients))

-----------------------------------------------------------------------------
(* search_recipes_in_db *)

\* a Firestore document: `has` names the fields the document holds
Doc(id, has, title, description, ingredients, instructions) ==
    [id |-> id, has |-> has, title |-> title, description |-> description,
     ingredients |-> ingredients, instructions |-> instructions]

\* recipe_data.get(key, default)
Get(doc, key, default) == IF key \in doc.has THEN doc[key] ELSE default

\* a record whose ingredient list holds a value without .lower()
Malformed(doc) ==
    \E i \in 1..Len(Get(doc, "ingredients", <<>>)) : ~IsStr(doc.ingredients[i])

\* [ing.lower() for ing in recipe_data.get('ingredients', [])]
recipe_ingredients(doc) ==
    LET stored == Get(doc, "ingredients", <<>>)
    IN  [i \in 1..Len(stored) |-> Lower(stored[i])]

\* variant: the stored list has to equal the query as a set
MatchesExactly(ingredients, lowered) ==
    {ingredients[i] : i \in 1..Len(ingredients)} = {lowered[j] : j \in 1..Len(lowered)}

\* all(ingredient in recipe_ingredients for ingredient in ingredients)
Matches(ingredients, lowered) ==
    \A i \in 1..Len(ingredients) : \E j \in 1..Len(lowered) : ingredients[i] = lowered[j]

\* the dict appended to matching_recipes
MatchOf(doc) ==
    [id |-> doc.id,
     title |-> Get(doc, "title", <<"Untitled Recipe">>),
     description |-> Get(doc, "description", NoText),
     ingredients |-> Get(doc, "ingredients", <<>>),
     instructions |-> Get(doc, "instructions", <<>>)]

\* variant: the matches found before the exception are returned
SearchOnErrorPartial(matching_recipes) == matching_recipes

\* except Exception: return []
SearchOnError(matching_recipes) == <<>>

RECURSIVE ScanDocs(_, _, _)
\* for doc in all_recipes, with matching_recipes so far
ScanDocs(docs, ingredients, matching_recipes) ==
    IF docs = <<>> THEN [raised |-> FALSE, recipes |-> matching_recipes]
    ELSE IF Malformed(Head(docs))
        THEN [raised |-> TRUE, recipes |-> SearchOnError(matching_recipes)]
    ELSE ScanDocs(Tail(docs), ingredients,
                  IF Matches(ingredients, recipe_ingredients(Head(docs)))
                  THEN Append(matching_recipes, MatchOf(Head(docs)))
                  ELSE matching_recipes)

\* stream_ok = FALSE: recipes_ref.stream() raises (store unreachable)
search_recipes_in_db(ingredients, docs, stream_ok) ==
    IF ~stream_ok THEN [raised |-> TRUE, recipes |-> SearchOnError(<<>>)]
    ELSE ScanDocs(docs, ingredients, <<>>)

-----------------------------------------------------------------------------
(* generate_recipe_with_ai *)

\* the outcome of requests.post(...), raise_for_status(), response.json() and the
\* indexing of the result: the completion text, or an exception
ApiFailures == {"network_error", "http_error", "malformed_body"}
ApiOk(lines) == [kind |-> "ok", text |-> lines]
ApiFail(kind) == [kind |-> kind, text |-> <<>>]

\* variant: a failed call is parsed as an empty completion instead of falling back
generate_without_fallback(ingredients, api) ==
    [parsed |-> TRUE, recipe |-> parse_ai_recipe(IF api.kind = "ok" THEN api.text ELSE << <<>> >>, ingredients)]

\* the try block parses the completion; the except block builds the fallback
generate_recipe_with_ai(ingredients, api) ==
    IF api.kind = "ok"
    THEN [parsed |-> TRUE, recipe |-> parse_ai_recipe(api.text, ingredients)]
    ELSE [parsed |-> FALSE, recipe |-> create_fallback_recipe(ingredients)]

-----------------------------------------------------------------------------
(* handle_recipe_request *)

\* the request body: absent, not JSON, or the JSON value null, a non-empty array,
\* or an object with an optional `ingredients` array and an optional `forceAI`
Body(kind, json_mime, has_ingredients, ingredients, forceAI) ==
    [kind |-> kind, json_mime |-> json_mime, has_ingredients |-> has_ingredients,
     ingredients |-> ingredients, forceAI |-> forceAI]

\* request.get_json(): None or BadRequest/UnsupportedMediaType when the mimetype is
\* not JSON (by the installed werkzeug), BadRequest when the body does not parse
get_json(body, mime_raises) ==
    IF ~body.json_mime
    THEN [raised |-> mime_raises, is_none |-> TRUE]
    ELSE IF body.kind \in {"absent", "unparseable"}
    THEN [raised |-> TRUE, is_none |-> TRUE]
    ELSE [raised |-> FALSE, is_none |-> body.kind = "null"]

\* not data
Falsy(body) ==
    body.kind = "null" \/ (body.kind = "dict" /\ ~body.has_ingredients /\ body.forceAI = "absent")

\* data.get('forceAI', False), as the condition of `if not force_ai`
force_ai_of(body) == body.forceAI = "true"

\* [ing.lower().strip() for ing in ingredients]
Normalize(ingredients) == [i \in 1..Len(ingredients) |-> Strip(Lower(ingredients[i]))]

\* variant: the lookup runs whatever forceAI says
UseStoreAlways(force_ai) == TRUE

\* if not force_ai

UseStore(force_ai) == ~force_ai

\* variant: matches never end the request
StoreHitNever(db_recipes) == FALSE

\* if db_recipes

StoreHit(db_recipes) == db_recipes # <<>>

\* variant: the generated ingredient phrases are stored instead of the query
SavedDocPhrases(id, ingredients, ai_recipe) ==
    [id |-> id, has |-> {"title", "description", "ingredients", "instructions", "source"},
     title |-> ai_recipe.title, description |-> ai_recipe.description,
     ingredients |-> ai_recipe.ingredients,
     instructions |-> ai_recipe.instructions]

\* the document given to db.collection('recipes').add
SavedDoc(id, ingredients, ai_recipe) ==
    [id |-> id, has |-> {"title", "description", "ingredients", "instructions", "source"},
     title |-> ai_recipe.title, description |-> ai_recipe.description,
     ingredients |-> [i \in 1..Len(ingredients) |-> Lower(ingredients[i])],
     instructions |-> ai_recipe.instructions]

\* the id Firestore assigns to an added document
NewId(docs) == 10 + Len(docs)

\* variant: a failed write-back reaches the outer except
AfterSaveSurfacing(ai_recipe, save) ==
    IF save = "fail" THEN RespError(500, "Internal server error") ELSE RespAI(ai_recipe)

\* the response after the optional write-back; save \in {"disabled", "ok", "fail"}
AfterSave(ai_recipe, save) == RespAI(ai_recipe)

NoLookup == [raised |-> FALSE, recipes |-> <<>>]

Trace0 ==
    [init_called |-> FALSE, lookup_ran |-> FALSE, lookup |-> NoLookup,
     query |-> <<>>, gen_called |-> FALSE, parse_called |-> FALSE,
     fallback_called |-> FALSE, ai_recipe |-> NoRecipe,
     save_attempted |-> FALSE, saved_id |-> 0]

Outcome(response, docs, tr) == [resp |-> response, store |-> docs, trace |-> tr]

\* lines 246-266: generation, optional write-back, the AI response
GenerateAndRespond(ingredients, docs, tr, api, save) ==
    LET gen == generate_recipe_with_ai(ingredients, api)
        ai_recipe == gen.recipe
        doc == SavedDoc(NewId(docs), ingredients, ai_recipe)
        tr2 == [tr EXCEPT !.gen_called = TRUE,
                          !.parse_called = gen.parsed,
                          !.fallback_called = ~gen.parsed,
                          !.ai_recipe = ai_recipe,
                          !.save_attempted = (save # "disabled"),
                          !.saved_id = IF save = "ok" THEN doc.id ELSE 0]
    IN  Outcome(AfterSave(ai_recipe, save),
                IF save = "ok" THEN Append(docs, doc) ELSE docs,
                tr2)

\* lines 230-266, for a non-empty list of strings
LookupThenGenerate(raw, force_ai, docs, init_ok, stream_ok, api, save) ==
    LET ingredients == Normalize(raw)
        tr0 == [Trace0 EXCEPT !.init_called = TRUE, !.query = ingredients]
        found == search_recipes_in_db(ingredients, docs, stream_ok)
        tr1 == [tr0 EXCEPT !.lookup_ran = TRUE, !.lookup = found]
    IN  IF ~init_ok
        THEN Outcome(RespError(500, "Internal server error"), docs, tr0)
        ELSE IF UseStore(force_ai)
        THEN IF StoreHit(found.recipes)
             THEN Outcome(RespDatabase(found.recipes), docs, tr1)
             ELSE GenerateAndRespond(ingredients, docs, tr1, api, save)
        ELSE GenerateAndRespond(ingredients, docs, tr0, api, save)

handle_recipe_request(body, docs, mime_raises, init_ok, stream_ok, api, save) ==
    LET data == get_json(body, mime_raises)
    IN  IF data.raised
        THEN Outcome(RespError(500, "Internal server error"), docs, Trace0)
        ELSE IF data.is_none \/ Falsy(body)
        THEN Outcome(RespError(400, "No data provided"), docs, Trace0)
        ELSE IF body.kind # "dict"
        THEN Outcome(RespError(500, "Internal server error"), docs, Trace0)
        ELSE IF ~body.has_ingredients \/ body.ingredients = <<>>
        THEN Outcome(RespError(400, "No ingredients provided"), docs, Trace0)
        ELSE IF \E i \in 1..Len(body.ingredients) : ~IsStr(body.ingredients[i])
        THEN Outcome(RespError(500, "Internal server error"), docs, Trace0)
        ELSE LookupThenGenerate(body.ingredients, force_ai_of(body), docs,
                                init_ok, stream_ok, api, save)

-----------------------------------------------------------------------------
(* Inputs *)

egg       == <<"e", "g", "g">>
flour     == <<"f", "l", "o", "u", "r">>
milk      == <<"m", "i", "l", "k">>
tofu      == <<"t", "o", "f", "u">>
soy_sauce == <<"s", "o", "y", " ", "s", "a", "u", "c", "e">>

AllFields == {"title", "description", "ingredients", "instructions"}

Pancakes  == Doc(1, AllFields, <<"Pancakes">>, <<"Fluffy">>, <<egg, flour, milk>>,
                 << <<"Mix">>, <<"Fry">> >>)
Omelette  == Doc(2, AllFields, <<"Omelette">>, <<"Quick">>, << <<"E", "g", "g">> >>,
                 << <<"Beat">>, <<"Fry">> >>)
BadRecord == Doc(3, AllFields, <<"Broken">>, NoText, <<egg, NotAString>>, <<>>)
Untitled  == Doc(4, {"description"}, NoText, <<"No fields">>, <<>>, <<>>)

Documents == {Pancakes, Omelette, BadRecord, Untitled}

RECURSIVE SeqsUpTo(_, _)
\* the sequences over S of length at most n
SeqsUpTo(S, n) ==
    IF n = 0 THEN {<<>>}
    ELSE LET shorter == SeqsUpTo(S, n - 1)
         IN  shorter \cup {Append(q, x) : q \in shorter, x \in S}

NoRepeat(q) == \A i, j \in 1..Len(q) : i # j => q[i] # q[j]

InitStores == {q \in SeqsUpTo(Documents, MaxInitStore) : NoRepeat(q)}

IngredientLists ==
    { <<egg, flour>>,
      << <<"E", "g", "g", " ">> >>,
      <<soy_sauce, <<" ", "T", "o", "f", "u">> >> }

Bodies ==
    {Body(k, m, FALSE, <<>>, "absent") : k \in {"absent", "unparseable"}, m \in BOOLEAN}
    \cup {Body("null", TRUE, FALSE, <<>>, "absent"), Body("list", TRUE, FALSE, <<>>, "absent")}
    \cup {Body("dict", TRUE, FALSE, <<>>, f) : f \in {"absent", "true"}}
    \cup {Body("dict", TRUE, TRUE, l, f) :
            l \in IngredientLists \cup {<<>>, <<egg, NotAString>>},
            f \in {"absent", "false", "true"}}

Numeral(i) == CASE i = 1 -> "1" [] i = 2 -> "2" [] i = 3 -> "3" [] OTHER -> "9"

\* the completion the prompt asks for
TemplateText(t, d, ings, steps) ==
    << <<TITLE_MARK, " ">> \o t,
       <<>>,
       <<DESC_MARK, " ">> \o d,
       <<>>,
       <<ILIST_MARK>> >>
    \o [i \in 1..Len(ings) |-> <<"-", " ">> \o ings[i]]
    \o << <<>>, <<INSTR_MARK>> >>
    \o [i \in 1..Len(steps) |-> <<Numeral(i), ".", " ">> \o steps[i]]

TofuText ==
    TemplateText(<<"Tofu Stir Fry">>, <<"Savoury">>,
                 << <<"2", "0", "0", "g", " ">> \o tofu, <<"2", " ", "tbsp", " ">> \o soy_sauce, <<"oil">> >>,
                 << <<"Press">>, <<"Fry">>, <<"Serve">> >>)

ApiOutcomes ==
    {ApiFail(k) : k \in ApiFailures} \cup {ApiOk(TofuText), ApiOk(<< <<>> >>)}

SaveOutcomes == {"disabled", "ok", "fail"}

NoReq ==
    [body |-> Body("none", TRUE, FALSE, <<>>, "absent"), mime_raises |-> FALSE,
     init_ok |-> TRUE, stream_ok |-> TRUE, api |-> ApiFail("unused"), save |-> "disabled"]

ParserIdle ==
    /\ p_text = <<>> /\ p_orig = <<>> /\ p_idx = 0 /\ p_line = <<>>
    /\ p_st = ParseInit /\ p_prev = ParseInit /\ p_pc = "idle"

SearchIdle == s_in = <<>> /\ s_out = <<>>

HandlerIdle ==
    /\ store = <<>> /\ req = NoReq /\ resp = NoResp /\ trace = Trace0
    /\ persisted = {} /\ prior = {}

-----------------------------------------------------------------------------
(* The handler, one request after another *)

Init ==
    /\ store \in InitStores
    /\ req = NoReq /\ resp = NoResp /\ trace = Trace0
    /\ persisted = {} /\ prior = {}
    /\ ParserIdle /\ SearchIdle

\* an outcome the handler never consults is left at its default
Consulted(body, out, mime_raises, init_ok, stream_ok, api, save) ==
    /\ body.json_mime => ~mime_raises
    /\ ~out.trace.init_called => init_ok
    /\ ~out.trace.lookup_ran => stream_ok
    /\ ~out.trace.gen_called => (api = ApiFail("unused") /\ save = "disabled")
    /\ out.trace.gen_called => api # ApiFail("unused")

\* the bodies that pass validation and normalisation
WellFormed(body) ==
    /\ body.kind = "dict" /\ body.json_mime /\ body.has_ingredients
    /\ body.ingredients # <<>>
    /\ \A i \in 1..Len(body.ingredients) : IsStr(body.ingredients[i])

\* one invocation of the handler, on a body of `bodies`, with the generation API
\* answering from `apis` and the write-back ending in one of `saves`
Invoke(bodies, apis, saves) ==
    /\ \E body \in bodies :
       \E mime_raises \in (IF body.json_mime THEN {FALSE} ELSE BOOLEAN) :
       \E init_ok \in (IF WellFormed(body) THEN BOOLEAN ELSE {TRUE}) :
       \E stream_ok \in (IF WellFormed(body) /\ init_ok THEN BOOLEAN ELSE {TRUE}) :
       \E api \in (IF WellFormed(body) /\ init_ok THEN apis \cup {ApiFail("unused")}
                   ELSE {ApiFail("unused")}) :
       \E save \in (IF api = ApiFail("unused") THEN {"disabled"} ELSE saves) :
       \E out \in {handle_recipe_request(body, store, mime_raises, init_ok, stream_ok, api, save)} :
             /\ Consulted(body, out, mime_raises, init_ok, stream_ok, api, save)
             /\ req' = [body |-> body, mime_raises |-> mime_raises, init_ok |-> init_ok,
                        stream_ok |-> stream_ok, api |-> api, save |-> save]
             /\ resp' = out.resp
             /\ store' = out.store
             /\ trace' = out.trace
             /\ prior' = persisted
             /\ persisted' =
                    IF out.trace.saved_id # 0
                    THEN persisted \cup {[ingredients |-> body.ingredients, id |-> out.trace.saved_id]}
                    ELSE persisted
    /\ UNCHANGED <<parser_vars, search_vars>>

\* Received -> ... -> Responded | Rejected | Failed: one invocation, on any collection
HandleRequest ==
    /\ resp = NoResp
    /\ Invoke(Bodies, ApiOutcomes, SaveOutcomes)

Next == HandleRequest

Spec == Init /\ [][Next]_vars

-----------------------------------------------------------------------------
(* The handler invoked again and again on one collection *)

RepeatStores == {<<>>, <<Pancakes>>, <<BadRecord>>, <<Untitled>>}

RepeatBodies ==
    {Body("dict", TRUE, TRUE, l, f) :
        l \in {<<egg, flour>>, << <<"E", "g", "g", " ">> >>}, f \in {"absent", "true"}}

RepeatApis == {ApiFail("network_error"), ApiOk(<< <<INSTR_MARK>>, <<"1", ".", " ", "Fry">> >>)}

InitRepeat ==
    /\ store \in RepeatStores
    /\ req = NoReq /\ resp = NoResp /\ trace = Trace0
    /\ persisted = {} /\ prior = {}
    /\ ParserIdle /\ SearchIdle

HandleRequestAgain ==
    Invoke(RepeatBodies, RepeatApis,
           IF Cardinality(persisted) < MaxSaves THEN SaveOutcomes ELSE {"disabled", "fail"})

NextRepeat == HandleRequestAgain

SpecRepeat == InitRepeat /\ [][NextRepeat]_vars

-----------------------------------------------------------------------------
(* Properties of the handler *)

Responded == resp # NoResp

QueryOf(body) == Normalize(body.ingredients)

NotForced(body) == body.forceAI \in {"absent", "false"}

\* the documents of the collection that hold every ingredient of the query
Superset(doc, query) ==
    \A i \in 1..Len(query) : \E j \in 1..Len(doc.ingredients) :
        "ingredients" \in doc.has /\ Lower(doc.ingredients[j]) = query[i]

SomeMalformed == \E i \in 1..Len(store) : Malformed(store[i])

NoCollaboratorAfterLookup ==
    /\ ~trace.gen_called /\ ~trace.parse_called
    /\ ~trace.fallback_called /\ ~trace.save_attempted

\* C1: on a request with a non-empty ingredient list and forceAI absent or false,
\* when the store lookup returns one or more matches the response is 200 with
\* source "database" and exactly those matches, and neither the generation client,
\* the parser, the fallback builder nor the write-back is invoked.
C1_StoreHitShortCircuits ==
    (/\ Responded /\ WellFormed(req.body) /\ NotForced(req.body)
     /\ trace.lookup_ran /\ trace.lookup.recipes # <<>>)
    => /\ resp.status = 200 /\ resp.source = "database" /\ resp.error = ""
       /\ resp.recipes = trace.lookup.recipes
       /\ resp.recipe = NoRecipe
       /\ \A k \in 1..Len(resp.recipes) :
            \E i \in 1..Len(store) :
                store[i].id = resp.recipes[k].id /\ Superset(store[i], QueryOf(req.body))
       /\ NoCollaboratorAfterLookup
       /\ trace.saved_id = 0

\* scenario B: the collection holds egg, flour, milk; the request asks for egg, flour
C1_Witness ==
    /\ req.body.ingredients = <<egg, flour>> /\ req.body.forceAI = "absent"
    /\ \E i \in 1..Len(store) : store[i] = Pancakes
    /\ resp.source = "database"
    /\ \E k \in 1..Len(resp.recipes) : resp.recipes[k].id = Pancakes.id

\* C2: when the generation API call fails (network error, non-success status,
\* malformed body) on a request that reached generation, the response is 200 with
\* source "ai" and the recipe is the fallback recipe of the normalized ingredients.
C2_GenerationFailureFallsBack ==
    (Responded /\ trace.gen_called /\ req.api.kind \in ApiFailures)
    => /\ resp.status = 200 /\ resp.source = "ai" /\ resp.error = ""
       /\ resp.recipe = create_fallback_recipe(QueryOf(req.body))
       /\ resp.recipe.ingredients = AsNeeded(QueryOf(req.body))
       /\ trace.fallback_called /\ ~trace.parse_called

\* scenario D, with the ingredients given as "soy sauce", " Tofu"
C2_Witness ==
    /\ trace.gen_called /\ req.api.kind = "network_error"
    /\ QueryOf(req.body) = <<soy_sauce, tofu>>
    /\ resp.status = 200
    /\ resp.recipe.title = <<"Simple ", "S", "o", "y", " ", "S", "a", "u", "c", "e", " Dish">>

\* C3: with forceAI absent, a store failure (the store unreachable, or a malformed
\* record met during the scan, also after earlier records matched) is not
\* surfaced: the lookup yields no recipes, generation runs, and the response is
\* 200 with source "ai".
C3_StoreFailureDegradesToAI ==
    (/\ Responded /\ WellFormed(req.body) /\ NotForced(req.body) /\ req.init_ok
     /\ (~req.stream_ok \/ SomeMalformed))
    => /\ trace.lookup_ran /\ trace.lookup.raised
       /\ trace.lookup.recipes = <<>>
       /\ trace.gen_called
       /\ resp.status = 200 /\ resp.source = "ai" /\ resp.error = ""
       /\ resp.recipes = <<>>

\* the malformed record comes after a record that matches the query
C3_Witness ==
    /\ Responded /\ req.body.ingredients = <<egg, flour>> /\ req.body.forceAI = "absent"
    /\ req.stream_ok /\ req.save = "disabled"
    /\ store = <<Pancakes, BadRecord>>
    /\ resp.source = "ai"

\* C4: a request whose body is absent or unparseable is answered 400 with
\* {"error": "No data provided"}, and a request whose ingredient list is empty
\* is answered 400 with {"error": "No ingredients provided"}.
C4_ValidationErrorsAre400 ==
    /\ (Responded /\ req.body.kind \in {"absent", "unparseable"})
       => resp = RespError(400, "No data provided")
    /\ (Responded /\ req.body.kind = "dict" /\ req.body.has_ingredients
        /\ req.body.ingredients = <<>>)
       => resp = RespError(400, "No ingredients provided")

\* C5: when forceAI is set the store lookup is not run, and a request that passes
\* validation and gets a store client is answered 200 with source "ai" and the
\* single generated recipe, also when the collection holds matching recipes.
C5_ForceAIBypassesStore ==
    (Responded /\ req.body.forceAI = "true")
    => /\ ~trace.lookup_ran
       /\ resp.source # "database" /\ resp.recipes = <<>>
       /\ (WellFormed(req.body) /\ req.init_ok)
          => /\ resp.status = 200 /\ resp.source = "ai" /\ resp.error = ""
             /\ trace.gen_called
             /\ resp.recipe = trace.ai_recipe /\ resp.recipe # NoRecipe

\* the collection holds a recipe that matches the forced request
C5_Witness ==
    /\ req.body.forceAI = "true" /\ req.body.ingredients = <<egg, flour>>
    /\ \E i \in 1..Len(store) : store[i] = Pancakes
    /\ resp.source = "ai"

\* C6: on a request that reaches generation the response is 200, source "ai" and
\* the generated recipe, the same with the write-back disabled, succeeding or failing.
C6_WriteBackNeverChangesResponse ==
    (Responded /\ trace.gen_called)
    => /\ req.save \in SaveOutcomes
       /\ resp = RespAI(generate_recipe_with_ai(QueryOf(req.body), req.api).recipe)
       /\ resp.status = 200 /\ resp.source = "ai"

C6_Witness ==
    /\ trace.gen_called /\ req.save = "fail" /\ trace.save_attempted /\ trace.saved_id = 0
    /\ resp.status = 200 /\ resp.source = "ai"
    /\ req.api = ApiOk(TofuText) /\ Len(resp.recipe.ingredients) = 3

PersistedBefore(p) ==
    /\ p \in prior
    /\ p.ingredients = req.body.ingredients

AnsweredFromPersisted(p) ==
    /\ resp.status = 200 /\ resp.source = "database"
    /\ \E k \in 1..Len(resp.recipes) :
            resp.recipes[k].id = p.id /\ resp.recipes[k].ingredients = QueryOf(req.body)
    /\ ~trace.gen_called

\* C10 as stated: once the AI recipe for ingredient list I was written back, every
\* later request with the same I and forceAI absent, the store reachable, is
\* answered from the database with the persisted record, without generation.
C10_PersistedAnswersLater ==
    \A p \in prior :
        (/\ PersistedBefore(p) /\ Responded /\ NotForced(req.body)
         /\ req.init_ok /\ req.stream_ok)
        => AnsweredFromPersisted(p)

\* C10, amended: the same, for a collection in which no record is malformed.
C10_PersistedAnswersLaterWellFormed ==
    \A p \in prior :
        (/\ PersistedBefore(p) /\ Responded /\ NotForced(req.body)
         /\ req.init_ok /\ req.stream_ok /\ ~SomeMalformed)
        => AnsweredFromPersisted(p)

C10_Witness ==
    \E p \in prior :
        /\ PersistedBefore(p) /\ NotForced(req.body) /\ ~SomeMalformed
        /\ resp.source = "database"
        /\ \E k \in 1..Len(resp.recipes) : resp.recipes[k].id = p.id

-----------------------------------------------------------------------------
(* parse_ai_recipe, line by line, on any text *)

RawLines ==
    { <<>>, <<" ">>, <<"-">>, <<"7">>,
      <<" ", "-", " ", "a", " ">>,
      <<"1", ".", " ", "a", " ">>, <<"2", "b">>, <<"3", ".">>,
      <<"a", ".", "b">>,
      <<TITLE_MARK, " ", "a">>, <<STARS, TITLE_MARK, STARS, " ", "a", " ", DESC_MARK>>,
      <<DESC_MARK, "b", STARS>>,
      <<ILIST_MARK>>, <<" ", INSTR_MARK, " ">>,
      <<"-", " ", ILIST_MARK>>, <<"1", ".", " ", TITLE_MARK, "a">> }

IngPhrases  == { <<"2", " ">> \o egg, <<"1", ".", "5", " ", "cups", " ">> \o milk }
StepPhrases == { <<"Mix", ".", " ", "Stir", " ", "-", " ", "well">>, <<"Fry", " ", "2", " ", "min">> }
Prefaces    == { <<>>, << <<"-", " ", "intro">> >>, << <<"1", ".", " ", "intro">> >> }

Triples(S) == {<<x, y, z>> : x \in S, y \in S, z \in S}

\* well-formed completions: three bulleted ingredients, three numbered instructions
TemplateCases ==
    {[text |-> pre \o TemplateText(<<"Dish">>, <<"Tasty">>, ings, steps),
      ingredients |-> ings, instructions |-> steps] :
        pre \in Prefaces, ings \in Triples(IngPhrases), steps \in Triples(StepPhrases)}

ParseTexts ==
    (SeqsUpTo(RawLines, MaxLines) \ {<<>>}) \cup {c.text : c \in TemplateCases}

OrigLists == {<<>>, <<egg>>, <<tofu, soy_sauce>>}

InitParse ==
    /\ p_text \in ParseTexts /\ p_orig \in OrigLists
    /\ p_idx = 0 /\ p_line = <<>>
    /\ p_st = ParseInit /\ p_prev = ParseInit /\ p_pc = "loop"
    /\ HandlerIdle /\ SearchIdle

\* one iteration of the for loop
ParseStep ==
    /\ p_pc = "loop" /\ p_idx < Len(p_text)
    /\ p_line' = p_text[p_idx + 1]
    /\ p_prev' = p_st
    /\ p_st' = ParseLine(p_st, p_text[p_idx + 1])
    /\ p_idx' = p_idx + 1
    /\ UNCHANGED <<p_text, p_orig, p_pc, handler_vars, search_vars>>

\* the defaults and the return
ParseReturn ==
    /\ p_pc = "loop" /\ p_idx = Len(p_text)
    /\ p_prev' = p_st
    /\ p_st' = ParseDefaults(p_st, p_orig)
    /\ p_pc' = "done"
    /\ UNCHANGED <<p_text, p_orig, p_idx, p_line, handler_vars, search_vars>>

NextParse == ParseStep \/ ParseReturn

SpecParse == InitParse /\ [][NextParse]_vars

\* C7 as stated: for every text and every original-ingredient sequence the parser
\* returns a recipe whose ingredients and instructions are both non-empty.
C7_ParseNeverEmpty ==
    p_pc = "done" => (p_st.ingredients # <<>> /\ p_st.instructions # <<>>)

\* C7, amended: for every text and every non-empty original-ingredient sequence
\* the parser returns, with non-empty ingredients and non-empty instructions; its
\* instructions are non-empty for an empty original-ingredient sequence as well.
C7_ParseNeverEmptyGivenIngredients ==
    p_pc = "done"
    => /\ RecipeOf(p_st) = parse_ai_recipe(p_text, p_orig)
       /\ p_st.instructions # <<>>
       /\ p_orig # <<>> => p_st.ingredients # <<>>
       /\ p_st.ingredients = <<>> <=> (p_orig = <<>> /\ p_prev.ingredients = <<>>)

\* a section marker followed by a line that is only "-"; a bare digit line; the empty text
C7_Witness ==
    /\ p_pc = "done" /\ p_orig = <<egg>>
    /\ p_text \in { << <<ILIST_MARK>>, <<"-">> >>, << <<" ", INSTR_MARK, " ">>, <<"7">> >>, << <<>> >> }
    /\ p_st.ingredients # <<>> /\ p_st.instructions # <<>>

\* the entry the code takes from an instruction line
StepText(line) ==
    IF \E i \in 1..Len(line) : line[i] = "."
    THEN LET dot == CHOOSE i \in 1..Len(line) : line[i] = "." /\ \A j \in 1..(i - 1) : line[j] # "."
         IN  Strip(SubSeq(line, dot + 1, Len(line)))
    ELSE line

\* C9: entries are recovered by section and in line order.  A line contributes an
\* ingredient only in section 'ingredients' and only if it starts with '-': the
\* text after the '-', trimmed, appended.  A line contributes an instruction only
\* in section 'instructions' and only if it starts with a digit: the text after
\* the first '.', trimmed, or the whole line without a '.', appended.  Lines before
\* any section marker contribute nothing, and a template text with three bullets
\* and three numbered steps gives back exactly those, in order.
C9_EntriesBySectionInOrder ==
    LET line == Strip(p_line)
        bullet == line # <<>> /\ line[1] = "-"
        numbered == line # <<>> /\ line[1] \in Digits
    IN  /\ (p_pc = "loop" /\ p_idx > 0)
           => /\ p_st.ingredients # p_prev.ingredients
                 => /\ p_prev.current_section = "ingredients" /\ bullet
                    /\ p_st.ingredients = Append(p_prev.ingredients, Strip(Tail(line)))
              /\ (p_prev.current_section = "ingredients" /\ bullet /\ ~IsMarkerLine(line))
                 => p_st.ingredients = Append(p_prev.ingredients, Strip(Tail(line)))
              /\ p_st.instructions # p_prev.instructions
                 => /\ p_prev.current_section = "instructions" /\ numbered
                    /\ p_st.instructions = Append(p_prev.instructions, StepText(line))
              /\ (p_prev.current_section = "instructions" /\ numbered /\ ~IsMarkerLine(line))
                 => p_st.instructions = Append(p_prev.instructions, StepText(line))
              /\ p_prev.current_section = "none"
                 => (p_st.ingredients = <<>> /\ p_st.instructions = <<>>)
        /\ p_pc = "done"
           => \A c \in TemplateCases :
                c.text = p_text
                => (p_st.ingredients = c.ingredients /\ p_st.instructions = c.instructions)

\* a template text preceded by a bulleted line, parsed to the end
C9_Witness ==
    /\ p_pc = "done"
    /\ \E c \in TemplateCases :
         /\ c.text = p_text /\ Head(p_text) = <<"-", " ", "intro">>
         /\ c.ingredients[1] # c.ingredients[2]
         /\ p_st.ingredients = c.ingredients /\ Len(p_st.instructions) = 3

-----------------------------------------------------------------------------
(* search_recipes_in_db on a query, and on the query and the collection changed *)

\* docs with `extra` added to the ingredient list of document `at`
WithIngredient(docs, at, extra) ==
    [docs EXCEPT ![at] = [@ EXCEPT !.has = @ \cup {"ingredients"},
                                    !.ingredients = Append(Get(docs[at], "ingredients", <<>>), extra)]]

\* the query without its element `drop`
Without(query, drop) ==
    SubSeq(query, 1, drop - 1) \o SubSeq(query, drop + 1, Len(query))

Ids(recipes) == {recipes[k].id : k \in 1..Len(recipes)}

Queries == SeqsUpTo({egg, flour, milk}, MaxQuery) \ {<<>>}

SearchInputs ==
    {[query |-> q, docs |-> d, at |-> a, extra |-> x, drop |-> r] :
        q \in Queries, d \in InitStores \ {<<>>}, a \in 1..MaxInitStore,
        x \in {flour, <<"M", "i", "l", "k">>}, r \in 1..MaxQuery}

NoSearch == [done |-> FALSE, base |-> {}, extended |-> {}, dropped |-> {}]

InitSearch ==
    /\ s_in \in {i \in SearchInputs : i.at <= Len(i.docs) /\ i.drop <= Len(i.query)}
    /\ s_out = NoSearch
    /\ HandlerIdle
    /\ p_text = <<>> /\ p_orig = <<>> /\ p_idx = 0 /\ p_line = <<>>
    /\ p_st = ParseInit /\ p_prev = ParseInit /\ p_pc = "idle"

Search ==
    /\ ~s_out.done
    /\ s_out' =
        [done |-> TRUE,
         base |-> Ids(search_recipes_in_db(s_in.query, s_in.docs, TRUE).recipes),
         extended |-> Ids(search_recipes_in_db(s_in.query,
                            WithIngredient(s_in.docs, s_in.at, s_in.extra), TRUE).recipes),
         dropped |-> Ids(search_recipes_in_db(Without(s_in.query, s_in.drop),
                            s_in.docs, TRUE).recipes)]
    /\ UNCHANGED <<s_in, handler_vars, parser_vars>>

NextSearch == Search

SpecSearch == InitSearch /\ [][NextSearch]_vars

\* C8: matching is monotonic.  For a fixed query, adding an ingredient to a stored
\* recipe's list removes nothing from the match set; for a fixed collection,
\* removing an ingredient from the query gives a superset of the match set.
C8_MatchingMonotonic ==
    s_out.done
    => /\ s_out.base \subseteq s_out.extended
       /\ s_out.base \subseteq s_out.dropped

\* a recipe that matched keeps matching with an ingredient added, and the shorter
\* query matches a recipe the longer one did not
C8_Witness ==
    /\ s_out.done /\ s_out.base # {} /\ s_out.base = s_out.extended
    /\ s_in.docs[s_in.at].id \in s_out.base
    /\ s_out.dropped # s_out.base

====
